---- MODULE Spec2Model ----
(***************************************************************************)
(* Model of syncAccount (src/src/worker.ts): one Trading212 -> YNAB sync   *)
(* run after another against the same ledger.                              *)
(*                                                                         *)
(* Representation.                                                         *)
(*  - A string is a sequence of tokens.  Numeric text is spelled character *)
(*    by character ("0", ".", "5", "e", "-"), so that parseAmount, the     *)
(*    Number -> string conversion of a template literal and the memo       *)
(*    pattern work on the characters they really see; names (a ticker, an  *)
(*    ISIN, a payee name) are single opaque tokens that hold no digit, no  *)
(*    "x" and no bracket.                                                  *)
(*  - An optional value (undefined / null) is <<>>, a present one <<v>>.   *)
(*  - A share count is a JS number; the model keeps it exactly, as an      *)
(*    integer count of 1e-10 shares (every count of the export has at most *)
(*    10 decimals).                                                        *)
(*  - A number that may be NaN or infinite (totalAmount, a mark-to-market  *)
(*    amount) is a record [k |-> "fin", v |-> n], [k |-> "nan", v |-> 0]   *)
(*    or [k |-> "inf", v |-> 1 or -1].                                     *)
(***************************************************************************)
EXTENDS Integers, Sequences, FiniteSets, TLC

----------------------------------------------------------------------------
(* Program constants *)

IMPORT_ID_VERSION == 14

IMPORT_PREFIX == "T212-"


\* inputPrecision of parseMoney and its outputFactor
MoneyPrecision == 2

MoneyFactor == 10

\* inputPrecision of parseT212StockQuantity (its outputFactor is 1); also the
\* 1e10 of `ynabPosition.quantity / 1e10`
QuantityPrecision == 10

QuantityFactor == 1

----------------------------------------------------------------------------
(* Strings and numbers *)

Digits == <<"0", "1", "2", "3", "4", "5", "6", "7", "8", "9">>

IsDigit(c) == \E i \in 1..10 : Digits[i] = c

DigitValue(c) == (CHOOSE i \in 1..10 : Digits[i] = c) - 1

RECURSIVE Pow10(_)
Pow10(n) == IF n <= 0 THEN 1 ELSE 10 * Pow10(n - 1)

StartsWith(s, p) == Len(s) >= Len(p) /\ SubSeq(s, 1, Len(p)) = p

Includes(s, c) == \E i \in 1..Len(s) : s[i] = c

None == <<>>

Some(v) == <<v>>

Fin(n) == [k |-> "fin", v |-> n]

NaN == [k |-> "nan", v |-> 0]

Inf(sign) == [k |-> "inf", v |-> sign]

\* String.prototype.split('.') : the first two pieces (the code reads no more)
SplitDot(s) ==
    LET dots == {i \in 1..Len(s) : s[i] = "."}
        d1 == IF dots = {} THEN Len(s) + 1 ELSE CHOOSE i \in dots : \A j \in dots : i <= j
        rest == {i \in dots : i > d1}
        d2 == IF rest = {} THEN Len(s) + 1 ELSE CHOOSE i \in rest : \A j \in rest : i <= j
    IN  [fixedAmount |-> SubSeq(s, 1, d1 - 1),
         decimalAmount |-> IF dots = {} THEN <<>> ELSE SubSeq(s, d1 + 1, d2 - 1)]

\* String.prototype.padEnd(n, '0')
PadEnd(s, n) == s \o [i \in 1..(IF n > Len(s) THEN n - Len(s) ELSE 0) |-> "0"]

RECURSIVE DigitsValue(_)
DigitsValue(s) == IF s = <<>> THEN 0 ELSE 10 * DigitsValue(SubSeq(s, 1, Len(s) - 1)) + DigitValue(s[Len(s)])

\* the longest prefix of s made of digits
DigitPrefixLen(s) ==
    IF \A i \in 1..Len(s) : IsDigit(s[i]) THEN Len(s)
    ELSE (CHOOSE i \in 1..Len(s) : ~IsDigit(s[i]) /\ \A j \in 1..(i - 1) : IsDigit(s[j])) - 1

\* parseInt(s): optional sign, then the leading digits; NaN when there is none
ParseInt(s) ==
    LET neg == Len(s) >= 1 /\ s[1] = "-"
        body == IF neg THEN Tail(s) ELSE s
        n == DigitPrefixLen(body)
    IN  IF n = 0 THEN NaN
        ELSE Fin((IF neg THEN -1 ELSE 1) * DigitsValue(SubSeq(body, 1, n)))

parseAmount(amount, inputPrecision, outputFactor) ==
    LET parts == SplitDot(amount)
        r == ParseInt(parts.fixedAmount \o PadEnd(parts.decimalAmount, inputPrecision))
    IN  IF r.k = "fin" THEN Fin(r.v * outputFactor) ELSE r

parseMoney(amount) == parseAmount(amount, MoneyPrecision, MoneyFactor)

parseT212StockQuantity(amount) == parseAmount(amount, QuantityPrecision, QuantityFactor)

\* parseFloat of a plain decimal of the export ("0.04", "12"), kept in units of
\* 1e-10: integer part and up to 10 decimals
ParseFloat(s) ==
    LET parts == SplitDot(s)
    IN  DigitsValue(parts.fixedAmount
                    \o SubSeq(PadEnd(parts.decimalAmount, QuantityPrecision), 1, QuantityPrecision))

RECURSIVE DigitsOf(_)
DigitsOf(n) == IF n < 10 THEN <<Digits[n + 1]>> ELSE DigitsOf(n \div 10) \o <<Digits[(n % 10) + 1]>>

RECURSIVE TrailingZeros(_)
TrailingZeros(n) == IF n = 0 \/ n % 10 # 0 THEN 0 ELSE 1 + TrailingZeros(n \div 10)

Zeros(n) == [i \in 1..n |-> "0"]

\* Number::toString of the number q * 1e-10 (q >= 0), as a template literal
\* prints it: with digits d1..dk and decimal exponent n (value 0.d1..dk * 10^n),
\* plain notation for -6 < n <= 21, exponent notation otherwise.
NumberToString(q) ==
    IF q = 0 THEN <<"0">>
    ELSE
    LET z == TrailingZeros(q)
        d == DigitsOf(q \div Pow10(z))
        k == Len(d)
        n == k + z - QuantityPrecision
        e == n - 1
    IN  IF k <= n /\ n <= 21 THEN d \o Zeros(n - k)
        ELSE IF 0 < n /\ n <= 21 THEN SubSeq(d, 1, n) \o <<".">> \o SubSeq(d, n + 1, k)
        ELSE IF -6 < n /\ n <= 0 THEN <<"0", ".">> \o Zeros(-n) \o d
        ELSE (IF k = 1 THEN d ELSE <<d[1], ".">> \o Tail(d))
               \o <<"e", IF e < 0 THEN "-" ELSE "+">> \o DigitsOf(IF e < 0 THEN -e ELSE e)

\* `${IMPORT_PREFIX}v${version}:`
VersionedPrefix(version) == <<IMPORT_PREFIX, "v">> \o DigitsOf(version) \o <<":">>

VERSIONED_IMPORT_PREFIX == VersionedPrefix(IMPORT_ID_VERSION)

----------------------------------------------------------------------------
(* JS number arithmetic on values that may be NaN or infinite *)

Sign(n) == IF n > 0 THEN 1 ELSE IF n < 0 THEN -1 ELSE 0

AbsInt(n) == IF n < 0 THEN -n ELSE n

RECURSIVE Gcd(_, _)
Gcd(a, b) == IF b = 0 THEN a ELSE Gcd(b, a % b)

\* a + b
NumAdd(a, b) ==
    IF a.k = "nan" \/ b.k = "nan" THEN NaN
    ELSE IF a.k = "inf" /\ b.k = "inf" THEN (IF a.v = b.v THEN a ELSE NaN)
    ELSE IF a.k = "inf" THEN a
    ELSE IF b.k = "inf" THEN b
    ELSE Fin(a.v + b.v)

\* Math.abs(a)
NumAbs(a) == IF a.k = "fin" THEN Fin(AbsInt(a.v)) ELSE IF a.k = "inf" THEN Inf(1) ELSE NaN

\* -a
NumNeg(a) == IF a.k = "nan" THEN NaN ELSE [a EXCEPT !.v = -a.v]

\* a > 0 (false for NaN)
NumPositive(a) == a.k # "nan" /\ a.v > 0

\* Math.round(t * num / den) for integers t, num, den with den # 0: the nearest
\* integer, a half rounded towards +Infinity.  The fraction is reduced first,
\* which changes nothing of the value.
RoundMulDiv(t, num, den) ==
    LET g == Gcd(AbsInt(num), AbsInt(den))
        n == (IF den < 0 THEN -num ELSE num) \div g
        d == AbsInt(den) \div g
    IN  (2 * t * n + d) \div (2 * d)

\* a faulty variant: the proportion sold is kept instead of the rest
ReducedTotalSold(totalAmount, quantity, held) ==
    IF totalAmount.k # "fin" \/ held = 0 THEN NaN
    ELSE Fin(RoundMulDiv(totalAmount.v, quantity, held))

\* Math.round(totalAmount * (1 - quantity / held)), line 361 and 363
ReducedTotal(totalAmount, quantity, held) ==
    IF totalAmount.k = "nan" THEN NaN
    ELSE IF held = 0 THEN
        \* quantity / 0 is Infinity (NaN for 0 / 0), 1 - Infinity is -Infinity
        IF quantity = 0 THEN NaN
        ELSE IF totalAmount.v = 0 THEN NaN
        ELSE Inf(-Sign(totalAmount.v))
    ELSE IF totalAmount.k = "inf" THEN
        LET f == Sign(held - quantity) * Sign(held)
        IN  IF f = 0 THEN NaN ELSE Inf(totalAmount.v * f)
    ELSE Fin(RoundMulDiv(totalAmount.v, held - quantity, held))

----------------------------------------------------------------------------
(* The export: raw rows and their parse *)

\* enum Trading212Action
Trading212Action ==
    {"Deposit", "Withdrawal", "Market buy", "Market sell", "Dividend (Dividend)",
     "Interest on cash", "Lending interest", "Currency conversion", "New card cost"}

\* optionalString, optionalMoney, optionalFloat: an empty field is undefined
optionalString(val) == IF val = <<>> THEN None ELSE Some(val)

optionalMoney(val) == IF val = <<>> THEN None ELSE Some(parseMoney(val))

optionalFloat(val) == IF val = <<>> THEN None ELSE Some(ParseFloat(val))

\* Trading212TransactionSchema accepts the row: the action is one of the enum
\* (the other required columns are strings in every row csv-parse returns)
SchemaAccepts(data) == data.Action \in Trading212Action

\* parseTransaction, for a row the schema accepts; the columns syncAccount never
\* reads (price per share, exchange rate, result, withholding tax) are left out
parseTransaction(data) ==
    [action |-> data.Action,
     timestamp |-> data.Time,
     isin |-> optionalString(data.ISIN),
     ticker |-> optionalString(data.Ticker),
     name |-> optionalString(data.Name),
     shareCount |-> optionalFloat(data.Shares),
     total |-> parseMoney(data.Total),
     totalCurrency |-> optionalString(data.TotalCurrency),
     notes |-> optionalString(data.Notes),
     id |-> data.ID,
     conversionFromAmount |-> optionalMoney(data.FromAmount),
     conversionFromCurrency |-> optionalString(data.FromCurrency),
     conversionToAmount |-> optionalMoney(data.ToAmount),
     conversionToCurrency |-> optionalString(data.ToCurrency),
     conversionFee |-> optionalMoney(data.ConversionFee)]

\* `${value}` of an optional string / an optional number
StrOf(opt) == IF opt = None THEN <<"undefined">> ELSE opt[1]

NumStrOf(opt) == IF opt = None THEN <<"undefined">> ELSE NumberToString(opt[1])

----------------------------------------------------------------------------
(* Import identities *)

\* The first 27 hexadecimal digits of sha256(data): one token, a different one
\* for each different data (no two seeds of a model run collide).
Sha256Hex(data) == <<"sha256", data>>

createImportId(data) == VERSIONED_IMPORT_PREFIX \o <<Sha256Hex(data)>>

\* `${t212Transaction.timestamp}:${t212Transaction.id}`
SourceSeed(t) == <<t.timestamp, ":", t.id>>

\* `${isin}:${today}:${currentValue}`
MarkSeed(isin, day, currentValue) == <<isin, ":", day, ":", currentValue>>

----------------------------------------------------------------------------
(* Ledger entries *)

\* A ledger transaction: ynab.NewTransaction, SaveTransactionWithIdOrImportId
\* and TransactionDetail alike.  id and import_id are <<>> when absent, memo is
\* <<>> when null; account_id is the same in every entry and is left out; a
\* category id is named by the setting it comes from.
Entry(date, cleared, amount, payee_name, payee_id, memo, approved, flag_color, import_id, category) ==
    [id |-> None, date |-> date, cleared |-> cleared, amount |-> amount,
     payee_name |-> payee_name, payee_id |-> payee_id, memo |-> memo,
     approved |-> approved, flag_color |-> flag_color, import_id |-> import_id,
     category |-> category, subtransactions |-> <<>>]

SubEntry(amount, payee_name, payee_id, memo, category) ==
    [amount |-> amount, payee_name |-> payee_name, payee_id |-> payee_id,
     memo |-> memo, category |-> category]

StockPayee(name) == <<"Stock:", " ">> \o name

\* payees.find((p) => p.name === payee_name)?.id
PayeeIdOf(payees, payee_name) ==
    LET hits == {i \in 1..Len(payees) : payees[i].name = payee_name}
    IN  IF hits = {} THEN None
        ELSE Some(payees[CHOOSE i \in hits : \A j \in hits : i <= j].id)

\* `${shareCount}x ${ticker} [${isin}]`
StockMemo(quantityText, ticker, isin) ==
    quantityText \o <<"x", " ">> \o ticker \o <<" ", "[">> \o isin \o <<"]">>

----------------------------------------------------------------------------
(* Classification of one export transaction: the body of the loop of lines
   170-327.  The result is the sequence of entries pushed to transactionsToAdd
   (none or one). *)

\* a faulty variant: the import id is compared with the ledger's own id
AlreadyImportedById(existingTransactions, import_id) ==
    \E n \in 1..Len(existingTransactions) : existingTransactions[n].id = Some(import_id)

\* lines 175-177: an entry of the ledger already carries this import id
AlreadyImported(existingTransactions, import_id) ==
    \E n \in 1..Len(existingTransactions) : existingTransactions[n].import_id = import_id

\* lines 179-184
OtherCurrency(t, accountCurrency) ==
    t.totalCurrency # None /\ t.totalCurrency[1] # accountCurrency

\* a faulty variant: the stock leg is the whole amount, the fee is not added back
ClassifyTradeWholeLeg(t, date, import_id, payees) ==
    LET isInflow == t.action = "Market sell"
        amount == IF isInflow THEN NumAbs(t.total) ELSE NumNeg(NumAbs(t.total))
        conversionFee == IF t.conversionFee = None THEN Fin(0) ELSE t.conversionFee[1]
        payee_name == StockPayee(StrOf(t.name))
        payee_id == PayeeIdOf(payees, payee_name)
        memo == StockMemo(NumStrOf(t.shareCount), StrOf(t.ticker), StrOf(t.isin))
        transaction == Entry(date, "cleared", amount, payee_name, payee_id, memo,
                             Some(TRUE), None, import_id, "stock")
    IN  IF NumPositive(conversionFee)
        THEN [transaction EXCEPT !.subtransactions =
                <<SubEntry(amount, payee_name, payee_id, memo, "stock"),
                  SubEntry(NumNeg(conversionFee), <<"Trading 212">>, None,
                           <<"Currency conversion fee">>, "conversionFee")>>]
        ELSE transaction

\* lines 217-261
ClassifyTrade(t, date, import_id, payees) ==
    LET isInflow == t.action = "Market sell"
        amount == IF isInflow THEN NumAbs(t.total) ELSE NumNeg(NumAbs(t.total))
        conversionFee == IF t.conversionFee = None THEN Fin(0) ELSE t.conversionFee[1]
        stockAmount == NumAdd(amount, conversionFee)
        payee_name == StockPayee(StrOf(t.name))
        payee_id == PayeeIdOf(payees, payee_name)
        memo == StockMemo(NumStrOf(t.shareCount), StrOf(t.ticker), StrOf(t.isin))
        transaction == Entry(date, "cleared", amount, payee_name, payee_id, memo,
                             Some(TRUE), None, import_id, "stock")
    IN  IF NumPositive(conversionFee)
        THEN [transaction EXCEPT !.subtransactions =
                <<SubEntry(stockAmount, payee_name, payee_id, memo, "stock"),
                  SubEntry(NumNeg(conversionFee), <<"Trading 212">>, None,
                           <<"Currency conversion fee">>, "conversionFee")>>]
        ELSE transaction

\* lines 283-312: <<>> when neither leg is in the account currency
ClassifyConversion(t, date, import_id, accountCurrency) ==
    LET undefinedAmount(a) == IF a = None THEN NaN ELSE a[1]
    IN  IF t.conversionFromCurrency = Some(accountCurrency)
        THEN <<Entry(date, "cleared", NumNeg(undefinedAmount(t.conversionFromAmount)),
                     <<"Exchanged to", " ">> \o StrOf(t.conversionToCurrency), None,
                     StrOf(IF t.notes = None THEN Some(<<>>) ELSE t.notes),
                     Some(TRUE), None, import_id, "none")>>
        ELSE IF t.conversionToCurrency = Some(accountCurrency)
        THEN <<Entry(date, "cleared", undefinedAmount(t.conversionToAmount),
                     <<"Exchanged from", " ">> \o StrOf(t.conversionFromCurrency), None,
                     StrOf(IF t.notes = None THEN Some(<<>>) ELSE t.notes),
                     Some(TRUE), None, import_id, "none")>>
        ELSE <<>>

\* lines 186-326, the switch
ClassifyAction(t, date, import_id, accountCurrency, payees) ==
    CASE t.action \in {"Deposit", "Withdrawal"} ->
           <<Entry(date, "cleared", t.total, <<t.action>>, None,
                   StrOf(IF t.notes = None THEN Some(<<>>) ELSE t.notes),
                   None, None, import_id, "none")>>
      [] t.action \in {"Interest on cash", "Lending interest"} ->
           <<Entry(date, "cleared", t.total, <<"Interest">>, None,
                   IF t.action = "Lending interest" THEN <<"Lending interest">> ELSE <<>>,
                   Some(t.action = "Interest on cash"), Some("purple"), import_id, "none")>>
      [] t.action \in {"Market buy", "Market sell"} ->
           <<ClassifyTrade(t, date, import_id, payees)>>
      [] t.action = "Dividend (Dividend)" ->
           LET payee_name == StockPayee(StrOf(t.name))
           IN  <<Entry(date, "cleared", t.total, payee_name, PayeeIdOf(payees, payee_name),
                       <<"Dividend", " ", "-", " ">>
                         \o StockMemo(NumStrOf(t.shareCount), StrOf(t.ticker), StrOf(t.isin)),
                       None, None, import_id, "dividend")>>
      [] t.action = "Currency conversion" ->
           ClassifyConversion(t, date, import_id, accountCurrency)
      [] t.action = "New card cost" ->
           <<Entry(date, "cleared", t.total, <<"Trading 212">>, None, <<"New card">>,
                   None, None, import_id, "none")>>

\* one iteration of the loop of lines 170-327
classify(t, existingTransactions, accountCurrency, payees) ==
    LET date == t.timestamp.day
        import_id == createImportId(SourceSeed(t))
    IN  IF AlreadyImported(existingTransactions, import_id) THEN <<>>
        ELSE IF OtherCurrency(t, accountCurrency) THEN <<>>
        ELSE ClassifyAction(t, date, import_id, accountCurrency, payees)

----------------------------------------------------------------------------
(* Position replay: the body of the loop of lines 331-373 *)

IsDigitOrDot(c) == IsDigit(c) \/ c = "."

\* memo.match(/^([\d.]+)x.+\[(.*?)\]$/): <<>> when the memo does not match, else
\* <<[quantity |-> group 1, isin |-> group 2]>>.  [\d.]+ takes the leading digits
\* and dots, "x" must follow; .+ is greedy, so the bracket taken is the last "["
\* that leaves at least one character after the "x".
MemoMatch(memo) ==
    LET n == Len(memo)
        stops == {i \in 1..n : ~IsDigitOrDot(memo[i])}
        x == IF stops = {} THEN n + 1 ELSE CHOOSE i \in stops : \A j \in stops : i <= j
        opens == {i \in (x + 2)..(n - 1) : memo[i] = "["}
    IN  IF x >= 2 /\ x <= n /\ memo[x] = "x" /\ memo[n] = "]" /\ opens # {}
        THEN LET b == CHOOSE i \in opens : \A j \in opens : i >= j
             IN  <<[quantity |-> SubSeq(memo, 1, x - 1), isin |-> SubSeq(memo, b + 1, n - 1)]>>
        ELSE <<>>

\* lines 332-338: the entry takes no part in the replay
NotReplayed(transaction) ==
    \/ ~StartsWith(transaction.payee_name, <<"Stock:">>)
    \/ ~StartsWith(transaction.import_id, VERSIONED_IMPORT_PREFIX)
    \/ StartsWith(transaction.memo, <<"Dividend", " ">>)

\* lines 352-358: the amount of the stock leg
StockLegAmount(transaction) ==
    LET subs == transaction.subtransactions
        hits == {i \in 1..Len(subs) : Includes(subs[i].memo, "x")}
    IN  IF hits = {} THEN transaction.amount
        ELSE subs[CHOOSE i \in hits : \A j \in hits : i <= j].amount

\* ynabPositions.get(isin) || { quantity: 0, totalAmount: 0 }
PositionOf(ynabPositions, isin) ==
    LET hits == {i \in 1..Len(ynabPositions) : ynabPositions[i].isin = isin}
    IN  IF hits = {} THEN [isin |-> isin, quantity |-> 0, totalAmount |-> Fin(0), unclearedId |-> None]
        ELSE ynabPositions[CHOOSE i \in hits : TRUE]

\* ynabPositions.set(isin, position): a Map keeps the order of first insertion
SetPosition(ynabPositions, position) ==
    IF \E i \in 1..Len(ynabPositions) : ynabPositions[i].isin = position.isin
    THEN [i \in 1..Len(ynabPositions) |->
            IF ynabPositions[i].isin = position.isin THEN position ELSE ynabPositions[i]]
    ELSE Append(ynabPositions, position)

\* lines 360-363: a cleared entry with a positive stock-leg amount
ApplySale(position, quantity) ==
    [position EXCEPT !.quantity = position.quantity - quantity,
                     !.totalAmount = ReducedTotal(position.totalAmount, quantity, position.quantity)]

\* lines 364-367: a cleared entry with a non-positive stock-leg amount
ApplyPurchase(position, quantity, transactionAmount) ==
    [position EXCEPT !.quantity = position.quantity + quantity,
                     !.totalAmount = NumAdd(position.totalAmount, NumAbs(transactionAmount))]

\* a faulty variant: an uncleared entry is not remembered
ApplyEntryForgetful(position, transaction, quantity) ==
    IF transaction.cleared = "cleared"
    THEN LET transactionAmount == StockLegAmount(transaction)
         IN  IF NumPositive(transactionAmount) THEN ApplySale(position, quantity)
             ELSE ApplyPurchase(position, quantity, transactionAmount)
    ELSE position

\* lines 349-370
ApplyEntry(position, transaction, quantity) ==
    IF transaction.cleared = "cleared"
    THEN LET transactionAmount == StockLegAmount(transaction)
         IN  IF NumPositive(transactionAmount) THEN ApplySale(position, quantity)
             ELSE ApplyPurchase(position, quantity, transactionAmount)
    ELSE IF transaction.cleared = "uncleared" /\ transaction.id # None
    THEN [position EXCEPT !.unclearedId = transaction.id]
    ELSE position

\* one iteration of the loop of lines 331-373: the positions after it, and
\* whether it threw `Could not parse memo`
replay(ynabPositions, transaction) ==
    IF NotReplayed(transaction) THEN [threw |-> FALSE, positions |-> ynabPositions]
    ELSE LET match == MemoMatch(transaction.memo)
         IN  IF match = <<>> THEN [threw |-> TRUE, positions |-> ynabPositions]
             ELSE LET quantity == parseT212StockQuantity(match[1].quantity).v
                      position == PositionOf(ynabPositions, match[1].isin)
                  IN  [threw |-> FALSE,
                       positions |-> SetPosition(ynabPositions,
                                                 ApplyEntry(position, transaction, quantity))]

----------------------------------------------------------------------------
(* Mark-to-market: the body of the loop of lines 375-415 *)

\* a faulty variant: the instrument is found by its ISIN alone
FindInstrumentByIsin(instruments, t212Positions, isin) ==
    LET hits == {i \in 1..Len(instruments) : instruments[i].isin = isin}
    IN  IF hits = {} THEN 0 ELSE CHOOSE i \in hits : \A j \in hits : i <= j

\* instruments.find((i) => i.isin === isin && t212Positions.has(i.ticker)); 0 when
\* there is none
FindInstrument(instruments, t212Positions, isin) ==
    LET hits == {i \in 1..Len(instruments) :
                    instruments[i].isin = isin /\ instruments[i].ticker \in DOMAIN t212Positions}
    IN  IF hits = {} THEN 0 ELSE CHOOSE i \in hits : \A j \in hits : i <= j

\* Math.round((quantity / t212Position.quantity) * t212Position.ppl), quantity > 0
PositionPpl(quantity, t212Position) ==
    IF t212Position.quantity = 0
    THEN (IF t212Position.ppl = 0 THEN NaN ELSE Inf(Sign(t212Position.ppl)))
    ELSE Fin(RoundMulDiv(t212Position.ppl, quantity, t212Position.quantity))

\* lines 391-406
MarkTransaction(ynabPosition, instrument, t212Position, payees, day) ==
    LET ynabPpl == PositionPpl(ynabPosition.quantity, t212Position)
        currentValue == NumAdd(ynabPosition.totalAmount, ynabPpl)
        payee_name == StockPayee(instrument.name)
    IN  Entry(day, "uncleared", currentValue, payee_name, PayeeIdOf(payees, payee_name),
              StockMemo(NumberToString(ynabPosition.quantity), instrument.shortName,
                        ynabPosition.isin),
              Some(TRUE), None, None, "stock")

\* one iteration of the loop of lines 375-415: what it does ("skip", "throw",
\* "update", "create") and the transaction it pushes
markToMarket(ynabPosition, instruments, t212Positions, payees, day) ==
    LET found == FindInstrument(instruments, t212Positions, ynabPosition.isin)
    IN  IF ynabPosition.quantity <= 0 THEN [does |-> "skip"]
        ELSE IF found = 0 THEN [does |-> "skip"]
        ELSE IF instruments[found].ticker \notin DOMAIN t212Positions THEN [does |-> "throw"]
        ELSE LET transaction == MarkTransaction(ynabPosition, instruments[found],
                                                t212Positions[instruments[found].ticker],
                                                payees, day)
             IN  IF ynabPosition.unclearedId # None
                 THEN [does |-> "update",
                       transaction |-> [transaction EXCEPT !.id = ynabPosition.unclearedId]]
                 ELSE [does |-> "create",
                       transaction |-> [transaction EXCEPT !.import_id =
                           createImportId(MarkSeed(ynabPosition.isin, day, transaction.amount))]]

----------------------------------------------------------------------------
(* The ledger (YNAB) *)

\* createTransactions: the ledger stores each entry of the batch under a new id
LedgerCreate(entries, batch) ==
    entries \o [n \in 1..Len(batch) |-> [batch[n] EXCEPT !.id = Some(<<"txn", Len(entries) + n>>)]]

\* updateTransactions: an entry of the batch replaces the stored entry of its id,
\* which keeps its import id
LedgerUpdate(entries, batch) ==
    [n \in 1..Len(entries) |->
        LET hits == {m \in 1..Len(batch) : batch[m].id = entries[n].id}
        IN  IF hits = {} THEN entries[n]
            ELSE [batch[CHOOSE m \in hits : \A o \in hits : m >= o]
                    EXCEPT !.import_id = entries[n].import_id]]

----------------------------------------------------------------------------
(* Inputs: what the collaborators answer *)

\* Bounds of the model
MaxExport == 2

MaxRuns == 2

\* trading212API.account.getInfo(): the account currency
AccountCurrency == <<"GBP">>

\* trading212API.metadata.getInstruments(): the security of ISIN-A is listed twice
Instruments ==
    <<[isin |-> <<"ISIN-A">>, ticker |-> <<"AAAl_EQ">>, name |-> <<"Acme">>, shortName |-> <<"AAA">>],
      [isin |-> <<"ISIN-A">>, ticker |-> <<"AAA_US_EQ">>, name |-> <<"Acme">>, shortName |-> <<"AAA">>],
      [isin |-> <<"ISIN-B">>, ticker |-> <<"BBB_US_EQ">>, name |-> <<"Bolt">>, shortName |-> <<"BBB">>]>>

\* trading212API.portfolio.getOpenPosition(), parsed (lines 141-152): no open
\* position, or 0.01 share of ISIN-A with a gain or a loss
OpenPositions ==
    {<<>>,
     [t \in {<<"AAA_US_EQ">>} |-> [quantity |-> 100000000, ppl |-> 50]],
     [t \in {<<"AAA_US_EQ">>} |-> [quantity |-> 100000000, ppl |-> -30]]}

\* ynabAPI.payees.getPayees()
Payees == <<[id |-> "payee-acme", name |-> StockPayee(<<"Acme">>)]>>

BlankRow ==
    [Action |-> "", Time |-> [day |-> 0, clock |-> "09:00:00"], ISIN |-> <<>>, Ticker |-> <<>>,
     Name |-> <<>>, Shares |-> <<>>, Total |-> <<>>, TotalCurrency |-> <<>>, Notes |-> <<>>,
     ID |-> "", FromAmount |-> <<>>, FromCurrency |-> <<>>, ToAmount |-> <<>>,
     ToCurrency |-> <<>>, ConversionFee |-> <<>>]

TradeRow(action, day, id, isin, ticker, name, shares, total, currency, fee) ==
    [BlankRow EXCEPT !.Action = action, !.Time.day = day, !.ID = id, !.ISIN = isin,
                     !.Ticker = ticker, !.Name = name, !.Shares = shares, !.Total = total,
                     !.TotalCurrency = currency, !.ConversionFee = fee]

CashRow(action, day, id, total) ==
    [BlankRow EXCEPT !.Action = action, !.Time.day = day, !.ID = id, !.Total = total,
                     !.TotalCurrency = <<"GBP">>]

ConversionRow(day, id, fromAmount, fromCurrency, toAmount, toCurrency) ==
    [BlankRow EXCEPT !.Action = "Currency conversion", !.Time.day = day, !.ID = id,
                     !.FromAmount = fromAmount, !.FromCurrency = fromCurrency,
                     !.ToAmount = toAmount, !.ToCurrency = toCurrency]

\* The rows an export is drawn from, in the order of the export (by time).
Rows ==
    <<CashRow("Deposit", 1, "id-deposit", <<"1", "0", "0", ".", "0", "0">>),
      \* 0.01 share for 1.00
      TradeRow("Market buy", 2, "id-buy", <<"ISIN-A">>, <<"AAA">>, <<"Acme">>,
               <<"0", ".", "0", "1", "0", "0", "0", "0", "0", "0", "0", "0">>,
               <<"1", ".", "0", "0">>, <<"GBP">>, <<>>),
      \* 0.006 share for 0.60, of which 0.05 is the conversion fee
      TradeRow("Market buy", 3, "id-buy-fee", <<"ISIN-A">>, <<"AAA">>, <<"Acme">>,
               <<"0", ".", "0", "0", "6">>, <<"0", ".", "6", "0">>, <<"GBP">>, <<"0", ".", "0", "5">>),
      \* a buy paid in another currency
      TradeRow("Market buy", 4, "id-buy-usd", <<"ISIN-B">>, <<"BBB">>, <<"Bolt">>,
               <<"0", ".", "0", "2">>, <<"3", ".", "0", "0">>, <<"USD">>, <<>>),
      \* 0.0000005 share, with a conversion fee of 0.00
      TradeRow("Market buy", 5, "id-buy-tiny", <<"ISIN-A">>, <<"AAA">>, <<"Acme">>,
               <<"0", ".", "0", "0", "0", "0", "0", "0", "5">>, <<"0", ".", "1", "0">>, <<"GBP">>,
               <<"0", ".", "0", "0">>),
      \* 0.004 share sold for 0.50
      TradeRow("Market sell", 6, "id-sell", <<"ISIN-A">>, <<"AAA">>, <<"Acme">>,
               <<"0", ".", "0", "0", "4">>, <<"0", ".", "5", "0">>, <<"GBP">>, <<>>),
      \* 0.02 share of the security bought in another currency, sold in the account's,
      \* with a conversion fee of 0.02
      TradeRow("Market sell", 7, "id-sell-b", <<"ISIN-B">>, <<"BBB">>, <<"Bolt">>,
               <<"0", ".", "0", "2">>, <<"2", ".", "5", "0">>, <<"GBP">>, <<"0", ".", "0", "2">>),
      TradeRow("Dividend (Dividend)", 8, "id-dividend", <<"ISIN-A">>, <<"AAA">>, <<"Acme">>,
               <<"0", ".", "0", "1">>, <<"0", ".", "0", "3">>, <<"GBP">>, <<>>),
      CashRow("Lending interest", 9, "id-lending", <<"0", ".", "0", "1">>),
      ConversionRow(10, "id-convert", <<"2", ".", "0", "0">>, <<"GBP">>, <<"2", ".", "5", "0">>, <<"USD">>),
      ConversionRow(11, "id-convert-other", <<"2", ".", "0", "0">>, <<"USD">>, <<"1", ".", "8", "0">>, <<"EUR">>),
      CashRow("New card cost", 12, "id-card", <<"-", "5", ".", "0", "0">>),
      \* an action the schema does not know
      CashRow("Stock split", 13, "id-split", <<"0", ".", "0", "0">>)>>

\* The exports: the rows of at most MaxExport places of Rows, in their order
RECURSIVE Pick(_, _)
Pick(places, from) ==
    IF from > Len(Rows) THEN <<>>
    ELSE (IF from \in places THEN <<Rows[from]>> ELSE <<>>) \o Pick(places, from + 1)

Exports == {Pick(places, 1) : places \in {P \in SUBSET (1..Len(Rows)) : Cardinality(P) <= MaxExport}}

\* an entry typed into the ledger by hand
ManualEntry ==
    [Entry(0, "cleared", Fin(-3500), <<"Coffee">>, None, <<>>, Some(TRUE), None, None, "none")
        EXCEPT !.id = Some(<<"txn", 1>>)]

\* an entry a run of import-id version `version` made of a buy of 0.01 share for
\* 1.00, older than the export reaches
ImportedBuy(version, n) ==
    [Entry(0, "cleared", Fin(-1000), StockPayee(<<"Acme">>), Some("payee-acme"),
           StockMemo(<<"0", ".", "0", "1">>, <<"AAA">>, <<"ISIN-A">>), Some(TRUE), None,
           VersionedPrefix(version) \o <<Sha256Hex(<<[day |-> 0, clock |-> "08:00:00"], ":", "id-old-buy">>)>>,
           "stock")
        EXCEPT !.id = Some(<<"txn", n>>)]

\* The ledgers a first run may meet
Ledgers ==
    {<<>>,
     <<ManualEntry>>,
     <<ManualEntry, ImportedBuy(IMPORT_ID_VERSION, 2)>>,
     <<ManualEntry, ImportedBuy(IMPORT_ID_VERSION - 1, 2)>>}

----------------------------------------------------------------------------
(* State *)

VARIABLES
    pc,                     \* where the run is
    run,                    \* the number of the run (the scheduled trigger fires again)
    ledger,                 \* the transactions the ledger holds
    csv,                    \* the rows of the export Trading212 serves
    exportsHistory,         \* reportId -> [status, downloadLink], as getExports answers
    ref,                    \* the export reference, <<>> before requestExport
    status, downloadLink,   \* what the last getExports said of the report
    trading212Transactions,
    t212Positions,
    existingTransactions,
    transactionsToAdd,
    transactionsToUpdate,
    ynabPositions,
    cursor,                 \* the place of the loop at pc in what it iterates
    error,                  \* <<>>, or the error the run threw
    calls,                  \* the calls of the run so far: requestExport, createTransactions, updateTransactions
    outcomes                \* how the earlier runs ended, "done" or "failed", oldest first

vars == <<pc, run, ledger, csv, exportsHistory, ref, status, downloadLink,
          trading212Transactions, t212Positions, existingTransactions, transactionsToAdd,
          transactionsToUpdate, ynabPositions, cursor, error, calls, outcomes>>

NoCalls == [requestExport |-> 0, createTransactions |-> 0, updateTransactions |-> 0]

\* today: the runs are a day apart
Today(r) == 20 + r

\* the state as syncAccount begins (lines 84-95), before the first run
Init ==
    /\ pc = "start"
    /\ ref = None
    /\ status = None
    /\ downloadLink = None
    /\ trading212Transactions = <<>>
    /\ t212Positions = <<>>
    /\ existingTransactions = <<>>
    /\ transactionsToAdd = <<>>
    /\ transactionsToUpdate = <<>>
    /\ ynabPositions = <<>>
    /\ cursor = 1
    /\ error = None
    /\ calls = NoCalls
    /\ outcomes = <<>>
    /\ run = 1
    /\ ledger \in Ledgers
    /\ csv \in Exports
    \* an export of an earlier day, finished long ago
    /\ exportsHistory = [r \in {0} |-> [status |-> "Finished", downloadLink |-> Some("link")]]

----------------------------------------------------------------------------
(* getTrading212Transactions, lines 97-134 *)

\* lines 103-112: ref ||= await requestExport(...)
RequestExport ==
    /\ pc = "start"
    /\ ref' = Some(run)
    /\ exportsHistory' = [r \in DOMAIN exportsHistory \cup {run} |->
                            IF r = run THEN [status |-> "Queued", downloadLink |-> None]
                            ELSE exportsHistory[r]]
    /\ calls' = [calls EXCEPT !.requestExport = @ + 1]
    /\ pc' = "poll"
    /\ UNCHANGED <<outcomes, run, ledger, csv, status, downloadLink, trading212Transactions,
                   t212Positions, existingTransactions, transactionsToAdd,
                   transactionsToUpdate, ynabPositions, cursor, error>>

\* Trading212 works on the export the run waits for
ExportProgress ==
    /\ pc = "poll"
    /\ LET e == exportsHistory[ref[1]]
       IN  \E next \in
               (IF e.status = "Queued" THEN {[status |-> "Processing", downloadLink |-> None]}
                ELSE IF e.status = "Processing"
                THEN {[status |-> "Finished", downloadLink |-> None],
                      [status |-> "Finished", downloadLink |-> Some("link")],
                      [status |-> "Failed", downloadLink |-> None]}
                ELSE IF e.status = "Finished" /\ e.downloadLink = None
                THEN {[status |-> "Finished", downloadLink |-> Some("link")]}
                ELSE {}) :
               exportsHistory' = [exportsHistory EXCEPT ![ref[1]] = next]
    /\ UNCHANGED <<outcomes, pc, run, ledger, csv, ref, status, downloadLink, trading212Transactions,
                   t212Positions, existingTransactions, transactionsToAdd,
                   transactionsToUpdate, ynabPositions, cursor, error, calls>>

\* a faulty variant: the first export of the history, whatever its reportId
FindFirstExport(history, reportId) ==
    history[CHOOSE r \in DOMAIN history : \A o \in DOMAIN history : r <= o]

\* exportsHistory.find((e) => e.reportId === reportId) || {}
FindExport(history, reportId) ==
    IF reportId \in DOMAIN history THEN history[reportId]
    ELSE [status |-> None, downloadLink |-> None]

\* lines 116-122: the export is not ready, the function calls itself with ref
PollAgain ==
    /\ pc = "poll"
    /\ LET e == FindExport(exportsHistory, ref[1])
       IN  /\ e.status # "Finished" \/ e.downloadLink = None
           /\ status' = e.status
           /\ downloadLink' = e.downloadLink
    /\ UNCHANGED <<outcomes, pc, run, ledger, csv, exportsHistory, ref, trading212Transactions,
                   t212Positions, existingTransactions, transactionsToAdd,
                   transactionsToUpdate, ynabPositions, cursor, error, calls>>

\* lines 116-124: the export is ready
PollFinished ==
    /\ pc = "poll"
    /\ LET e == FindExport(exportsHistory, ref[1])
       IN  /\ ~(e.status # "Finished" \/ e.downloadLink = None)
           /\ status' = e.status
           /\ downloadLink' = e.downloadLink
    /\ pc' = "download"
    /\ UNCHANGED <<outcomes, run, ledger, csv, exportsHistory, ref, trading212Transactions,
                   t212Positions, existingTransactions, transactionsToAdd,
                   transactionsToUpdate, ynabPositions, cursor, error, calls>>

\* lines 124-133: download, parse, and parseTransaction of every row; the schema
\* throws on the first row it does not accept
Download ==
    /\ pc = "download"
    /\ IF \A n \in 1..Len(csv) : SchemaAccepts(csv[n])
       THEN /\ trading212Transactions' = [n \in 1..Len(csv) |-> parseTransaction(csv[n])]
            /\ pc' = "fetch"
            /\ error' = error
       ELSE /\ trading212Transactions' = trading212Transactions
            /\ pc' = "failed"
            /\ error' = Some("ValidationError")
    /\ UNCHANGED <<outcomes, run, ledger, csv, exportsHistory, ref, status, downloadLink,
                   t212Positions, existingTransactions, transactionsToAdd,
                   transactionsToUpdate, ynabPositions, cursor, calls>>

----------------------------------------------------------------------------
(* syncAccount, lines 136-428 *)

\* lines 138-155: the reads of both collaborators
Fetch ==
    /\ pc = "fetch"
    /\ t212Positions' \in OpenPositions
    /\ existingTransactions' = ledger
    /\ pc' = "version"
    /\ UNCHANGED <<outcomes, run, ledger, csv, exportsHistory, ref, status, downloadLink,
                   trading212Transactions, transactionsToAdd, transactionsToUpdate,
                   ynabPositions, cursor, error, calls>>

\* a faulty variant: the two prefixes change places
OtherVersionSwapped(transactions) ==
    \E n \in 1..Len(transactions) :
        /\ StartsWith(transactions[n].import_id, VERSIONED_IMPORT_PREFIX)
        /\ ~StartsWith(transactions[n].import_id, <<IMPORT_PREFIX>>)

\* lines 157-159
OtherVersion(transactions) ==
    \E n \in 1..Len(transactions) :
        /\ StartsWith(transactions[n].import_id, <<IMPORT_PREFIX>>)
        /\ ~StartsWith(transactions[n].import_id, VERSIONED_IMPORT_PREFIX)

\* lines 157-168
VersionCheck ==
    /\ pc = "version"
    /\ IF OtherVersion(existingTransactions)
       THEN /\ pc' = "failed"
            /\ error' = Some("VersionConflictError")
       ELSE /\ pc' = "classify"
            /\ error' = error
    /\ cursor' = 1
    /\ UNCHANGED <<outcomes, run, ledger, csv, exportsHistory, ref, status, downloadLink,
                   trading212Transactions, t212Positions, existingTransactions,
                   transactionsToAdd, transactionsToUpdate, ynabPositions, calls>>

\* a faulty variant: each entry is sent to the ledger as soon as it is made
ClassifyAndSend ==
    /\ pc = "classify"
    /\ cursor <= Len(trading212Transactions)
    /\ LET made == classify(trading212Transactions[cursor], existingTransactions,
                            AccountCurrency, Payees)
       IN  /\ transactionsToAdd' = transactionsToAdd \o made
           /\ ledger' = LedgerCreate(ledger, made)
           /\ calls' = [calls EXCEPT !.createTransactions = @ + Len(made)]
    /\ cursor' = cursor + 1
    /\ UNCHANGED <<outcomes, pc, run, csv, exportsHistory, ref, status, downloadLink,
                   trading212Transactions, t212Positions, existingTransactions,
                   transactionsToUpdate, ynabPositions, error>>

\* lines 170-327: one transaction of the export
Classify ==
    /\ pc = "classify"
    /\ cursor <= Len(trading212Transactions)
    /\ transactionsToAdd' = transactionsToAdd \o
           classify(trading212Transactions[cursor], existingTransactions, AccountCurrency, Payees)
    /\ cursor' = cursor + 1
    /\ UNCHANGED <<outcomes, pc, run, ledger, csv, exportsHistory, ref, status, downloadLink,
                   trading212Transactions, t212Positions, existingTransactions,
                   transactionsToUpdate, ynabPositions, error, calls>>

\* line 329: the loop of the export is over
Classified ==
    /\ pc = "classify"
    /\ cursor > Len(trading212Transactions)
    /\ pc' = "replay"
    /\ cursor' = 1
    /\ ynabPositions' = <<>>
    /\ UNCHANGED <<outcomes, run, ledger, csv, exportsHistory, ref, status, downloadLink,
                   trading212Transactions, t212Positions, existingTransactions,
                   transactionsToAdd, transactionsToUpdate, error, calls>>

\* lines 331-373: one entry of [...existingTransactions, ...transactionsToAdd]
Replay ==
    /\ pc = "replay"
    /\ cursor <= Len(existingTransactions \o transactionsToAdd)
    /\ LET r == replay(ynabPositions, (existingTransactions \o transactionsToAdd)[cursor])
       IN  IF r.threw
           THEN /\ pc' = "failed"
                /\ error' = Some("Could not parse memo")
                /\ UNCHANGED <<ynabPositions, cursor>>
           ELSE /\ ynabPositions' = r.positions
                /\ cursor' = cursor + 1
                /\ UNCHANGED <<pc, error>>
    /\ UNCHANGED <<outcomes, run, ledger, csv, exportsHistory, ref, status, downloadLink,
                   trading212Transactions, t212Positions, existingTransactions,
                   transactionsToAdd, transactionsToUpdate, calls>>

\* line 375: the replay is over
Replayed ==
    /\ pc = "replay"
    /\ cursor > Len(existingTransactions \o transactionsToAdd)
    /\ pc' = "mark"
    /\ cursor' = 1
    /\ UNCHANGED <<outcomes, run, ledger, csv, exportsHistory, ref, status, downloadLink,
                   trading212Transactions, t212Positions, existingTransactions,
                   transactionsToAdd, transactionsToUpdate, ynabPositions, error, calls>>

\* lines 375-415: one position
Mark ==
    /\ pc = "mark"
    /\ cursor <= Len(ynabPositions)
    /\ LET m == markToMarket(ynabPositions[cursor], Instruments, t212Positions, Payees, Today(run))
       IN  /\ transactionsToAdd' =
                 IF m.does = "create" THEN Append(transactionsToAdd, m.transaction)
                 ELSE transactionsToAdd
           /\ transactionsToUpdate' =
                 IF m.does = "update" THEN Append(transactionsToUpdate, m.transaction)
                 ELSE transactionsToUpdate
           /\ IF m.does = "throw"
              THEN pc' = "failed" /\ error' = Some("No t212 position") /\ cursor' = cursor
              ELSE pc' = pc /\ error' = error /\ cursor' = cursor + 1
    /\ UNCHANGED <<outcomes, run, ledger, csv, exportsHistory, ref, status, downloadLink,
                   trading212Transactions, t212Positions, existingTransactions,
                   ynabPositions, calls>>

\* line 417: every position is marked
Marked ==
    /\ pc = "mark"
    /\ cursor > Len(ynabPositions)
    /\ pc' = "create"
    /\ UNCHANGED <<outcomes, run, ledger, csv, exportsHistory, ref, status, downloadLink,
                   trading212Transactions, t212Positions, existingTransactions,
                   transactionsToAdd, transactionsToUpdate, ynabPositions, cursor, error, calls>>

\* lines 417-421: the create batch, when there is one
Create ==
    /\ pc = "create"
    /\ IF Len(transactionsToAdd) > 0
       THEN /\ ledger' = LedgerCreate(ledger, transactionsToAdd)
            /\ calls' = [calls EXCEPT !.createTransactions = @ + 1]
       ELSE UNCHANGED <<ledger, calls>>
    /\ pc' = "update"
    /\ UNCHANGED <<outcomes, run, csv, exportsHistory, ref, status, downloadLink,
                   trading212Transactions, t212Positions, existingTransactions,
                   transactionsToAdd, transactionsToUpdate, ynabPositions, cursor, error>>

\* lines 423-427: the update batch, when there is one
Update ==
    /\ pc = "update"
    /\ IF Len(transactionsToUpdate) > 0
       THEN /\ ledger' = LedgerUpdate(ledger, transactionsToUpdate)
            /\ calls' = [calls EXCEPT !.updateTransactions = @ + 1]
       ELSE UNCHANGED <<ledger, calls>>
    /\ pc' = "done"
    /\ UNCHANGED <<outcomes, run, csv, exportsHistory, ref, status, downloadLink,
                   trading212Transactions, t212Positions, existingTransactions,
                   transactionsToAdd, transactionsToUpdate, ynabPositions, cursor, error>>

\* the scheduled trigger fires again (worker.ts, lines 3-7), after a run that ended
\* or failed; the export is still the same
NextRun ==
    /\ pc \in {"done", "failed"}
    /\ run < MaxRuns
    /\ run' = run + 1
    /\ pc' = "start"
    /\ ref' = None
    /\ status' = None
    /\ downloadLink' = None
    /\ trading212Transactions' = <<>>
    /\ t212Positions' = <<>>
    /\ existingTransactions' = <<>>
    /\ transactionsToAdd' = <<>>
    /\ transactionsToUpdate' = <<>>
    /\ ynabPositions' = <<>>
    /\ cursor' = 1
    /\ error' = None
    /\ calls' = NoCalls
    /\ outcomes' = Append(outcomes, pc)
    /\ UNCHANGED <<ledger, csv, exportsHistory>>

Next ==
    \/ RequestExport
    \/ ExportProgress
    \/ PollAgain
    \/ PollFinished
    \/ Download
    \/ Fetch
    \/ VersionCheck
    \/ Classify
    \/ Classified
    \/ Replay
    \/ Replayed
    \/ Mark
    \/ Marked
    \/ Create
    \/ Update
    \/ NextRun

Spec == Init /\ [][Next]_vars

----------------------------------------------------------------------------
(* What the claims speak of, said from the state alone *)

\* the import identity of source transaction t
SourceIdentity(t) == VERSIONED_IMPORT_PREFIX \o <<Sha256Hex(<<t.timestamp, ":", t.id>>)>>

\* the entries of es that carry the import identity id
Holding(es, id) == {n \in 1..Len(es) : es[n].import_id = id}

\* a source-derived entry is cleared; a mark-to-market entry is uncleared
SourceDerived(e) == e.cleared = "cleared"

MarkEntry(e) == e.cleared = "uncleared"

\* the ISIN a stock memo ends with: `... [isin]`
IsinOf(e) == <<e.memo[Len(e.memo) - 1]>>

MarksOf(es, isin) == {n \in 1..Len(es) : MarkEntry(es[n]) /\ IsinOf(es[n]) = isin}

\* the loops of classification, replay and mark-to-market are all over
InMemoryWorkDone == pc \in {"create", "update", "done"}

\* the catalog knows the ISIN / some listing of the ISIN has an open position
KnownInstrument(isin) == \E n \in 1..Len(Instruments) : Instruments[n].isin = isin

LivePosition(isin) ==
    \E n \in 1..Len(Instruments) :
        Instruments[n].isin = isin /\ Instruments[n].ticker \in DOMAIN t212Positions

----------------------------------------------------------------------------
(* C1 *)

\* C1: a source transaction whose import identity an existing ledger entry
\* already carries gives no entry (no entry to add carries an identity the
\* fetched ledger holds), and once an earlier run over the same export has
\* ended with its creates applied, the create batch holds no source-derived
\* entry at all.
C1_IdempotentReimport ==
    /\ \A n \in 1..Len(transactionsToAdd) :
          SourceDerived(transactionsToAdd[n])
            => Holding(existingTransactions, transactionsToAdd[n].import_id) = {}
    /\ \A n \in 1..Len(trading212Transactions) :
          (/\ pc \in {"replay", "mark", "create", "update", "done"}
           /\ Holding(existingTransactions, SourceIdentity(trading212Transactions[n])) # {})
            => Holding(transactionsToAdd, SourceIdentity(trading212Transactions[n])) = {}
    /\ (outcomes # <<>> /\ outcomes[Len(outcomes)] = "done")
          => \A n \in 1..Len(transactionsToAdd) : ~SourceDerived(transactionsToAdd[n])

\* a second run has classified an export of MaxExport rows, all of them already
\* in the ledger since the first run, and creates none of them again
C1_Witness ==
    /\ run = 2 /\ outcomes = <<"done">> /\ pc = "done"
    /\ Len(trading212Transactions) = MaxExport
    /\ \A n \in 1..Len(trading212Transactions) :
          Holding(existingTransactions, SourceIdentity(trading212Transactions[n])) # {}
    /\ \A n \in 1..Len(transactionsToAdd) : ~SourceDerived(transactionsToAdd[n])

----------------------------------------------------------------------------
(* C2 *)

\* an import id that starts with "T212-" and not with "T212-v14:"
OtherVersionId(import_id) ==
    /\ Len(import_id) >= 1 /\ import_id[1] = "T212-"
    /\ ~(Len(import_id) >= 5 /\ SubSeq(import_id, 1, 5) = <<"T212-", "v", "1", "4", ":">>)

\* C2: when an entry of the ledger has an import id of another version, the run
\* never classifies a transaction: it never gets past the version check, and
\* once it has read the ledger it ends there with the version-conflict error,
\* having classified, replayed and sent nothing, whatever the export holds.
C2_VersionConflict ==
    /\ (\E n \in 1..Len(ledger) : OtherVersionId(ledger[n].import_id))
          => pc \in {"start", "poll", "download", "fetch", "version", "failed"}
    /\ (\E n \in 1..Len(existingTransactions) : OtherVersionId(existingTransactions[n].import_id))
          => /\ pc = "version" \/ (pc = "failed" /\ error = Some("VersionConflictError"))
             /\ transactionsToAdd = <<>>
             /\ transactionsToUpdate = <<>>
             /\ ynabPositions = <<>>
             /\ calls.createTransactions = 0
             /\ calls.updateTransactions = 0

\* the run met an entry of version 13 and failed, its export holding MaxExport
\* transactions
C2_Witness ==
    /\ pc = "failed"
    /\ error = Some("VersionConflictError")
    /\ Len(trading212Transactions) = MaxExport
    /\ \E n \in 1..Len(existingTransactions) :
          /\ Len(existingTransactions[n].import_id) >= 5
          /\ SubSeq(existingTransactions[n].import_id, 1, 5) = <<"T212-", "v", "1", "3", ":">>

----------------------------------------------------------------------------
(* C3 *)

\* every transaction of the export is classified: it is in the create batch,
\* or it was skipped (already imported, another currency, a conversion with no
\* leg in the account currency)
EveryTransactionClassified ==
    /\ Len(trading212Transactions) = Len(csv)
    /\ \A n \in 1..Len(trading212Transactions) :
          LET t == trading212Transactions[n]
          IN  \/ Holding(transactionsToAdd, SourceIdentity(t)) # {}
              \/ Holding(existingTransactions, SourceIdentity(t)) # {}
              \/ (t.totalCurrency # None /\ t.totalCurrency # Some(AccountCurrency))
              \/ (/\ t.action = "Currency conversion"
                  /\ t.conversionFromCurrency # Some(AccountCurrency)
                  /\ t.conversionToCurrency # Some(AccountCurrency))

\* C3: createTransactions and updateTransactions are called, and the ledger
\* changes, only when every transaction is classified and the positions are
\* reconciled; a run that failed has called neither.
C3_NoMutationBeforeWorkDone ==
    /\ (calls.createTransactions > 0 \/ calls.updateTransactions > 0)
          => /\ pc \in {"update", "done"}
             /\ error = None
             /\ EveryTransactionClassified
             /\ cursor > Len(ynabPositions)
    /\ pc = "failed" => calls.createTransactions = 0 /\ calls.updateTransactions = 0
    /\ pc \in {"version", "classify", "replay", "mark", "create"} => ledger = existingTransactions
    /\ (pc = "failed" /\ error # Some("ValidationError")) => ledger = existingTransactions
    /\ calls.createTransactions <= 1 /\ calls.updateTransactions <= 1

\* a run that classified MaxExport transactions, marked a position and then
\* sent its create batch
C3_Witness ==
    /\ pc = "done"
    /\ calls.createTransactions = 1
    /\ Len(trading212Transactions) = MaxExport
    /\ \E n \in 1..Len(transactionsToAdd) : MarkEntry(transactionsToAdd[n])

----------------------------------------------------------------------------
(* C4 *)

\* the entry the replay is at
ReplayedEntry == (existingTransactions \o transactionsToAdd)[cursor]

\* the entry is one the replay counts: a stock payee, the current version
\* prefix, no dividend memo, cleared
CountedInReplay(e) ==
    /\ Len(e.payee_name) >= 1 /\ e.payee_name[1] = "Stock:"
    /\ Len(e.import_id) >= 5 /\ SubSeq(e.import_id, 1, 5) = <<"T212-", "v", "1", "4", ":">>
    /\ ~(Len(e.memo) >= 1 /\ e.memo[1] = "Dividend")
    /\ e.cleared = "cleared"

\* the amount of the stock leg: that of the first sub-entry (the stock leg)
\* when the entry is split, else the entry's own
LegAmount(e) == IF e.subtransactions # <<>> THEN e.subtransactions[1].amount.v ELSE e.amount.v

\* the position of the ISIN in ps, zero when it has none yet
Held(ps, isin) ==
    IF \E n \in 1..Len(ps) : ps[n].isin = isin
    THEN LET p == ps[CHOOSE n \in 1..Len(ps) : ps[n].isin = isin]
         IN  [quantity |-> p.quantity, totalAmount |-> p.totalAmount]
    ELSE [quantity |-> 0, totalAmount |-> [k |-> "fin", v |-> 0]]

\* r = round(t * (1 - q / h)) for h # 0: r - 1/2 <= t * (h - q) / h < r + 1/2, the
\* fraction (h - q) / h in lowest terms
IsRounded(r, t, q, h) ==
    LET g == Gcd(AbsInt(h - q), AbsInt(h))
        a == (IF h < 0 THEN q - h ELSE h - q) \div g
        b == AbsInt(h) \div g
    IN  (2 * r - 1) * b <= 2 * t * a /\ 2 * t * a < (2 * r + 1) * b

\* what one replay step does to the position of the entry's ISIN, for memo
\* quantity q
PositionReplayStep(e, q, before, after) ==
    IF LegAmount(e) <= 0
    THEN /\ after.quantity = before.quantity + q
         /\ before.totalAmount.k = "fin"
              => after.totalAmount = [k |-> "fin", v |-> before.totalAmount.v + AbsInt(LegAmount(e))]
    ELSE /\ after.quantity = before.quantity - q
         /\ (before.totalAmount.k = "fin" /\ before.quantity # 0)
              => /\ after.totalAmount.k = "fin"
                 /\ IsRounded(after.totalAmount.v, before.totalAmount.v, q, before.quantity)
         \* q / 0: the product is NaN or infinite
         /\ before.quantity = 0 => after.totalAmount.k # "fin"

\* C4: each replay step on a cleared stock-tagged entry adds the memo quantity
\* and |amount| to the position when the stock-leg amount is not positive, and
\* when it is positive takes the quantity q from the held h and sets
\* totalAmount to round(totalAmount * (1 - q / h)); 10 held at cost 1000 less 4
\* sold is 6 at cost 600.
C4_PositionReplay ==
    /\ [][(pc = "replay" /\ pc' = "replay" /\ cursor' = cursor + 1 /\ CountedInReplay(ReplayedEntry))
            => LET e == ReplayedEntry
                   x == CHOOSE i \in 1..Len(e.memo) : e.memo[i] = "x"
                   q == parseT212StockQuantity(SubSeq(e.memo, 1, x - 1)).v
               IN  PositionReplayStep(e, q, Held(ynabPositions, IsinOf(e)),
                                      Held(ynabPositions', IsinOf(e)))]_vars
    /\ [](LET bought == ApplyPurchase(PositionOf(<<>>, <<"ISIN-A">>), 10, Fin(-1000))
              sold == ApplySale(bought, 4)
          IN  /\ bought.quantity = 10 /\ bought.totalAmount = Fin(1000)
              /\ sold.quantity = 6 /\ sold.totalAmount = Fin(600))

\* the replay is over: 0.01 share bought for 1000, then 0.004 share sold,
\* leaves 0.006 share at cost 600
C4_Witness ==
    /\ pc = "mark"
    /\ \E n \in 1..Len(ynabPositions) :
          /\ ynabPositions[n].isin = <<"ISIN-A">>
          /\ ynabPositions[n].quantity = 60000000
          /\ ynabPositions[n].totalAmount = [k |-> "fin", v |-> 600]
    /\ \E n \in 1..Len(transactionsToAdd) :
          /\ transactionsToAdd[n].amount.v > 0 /\ CountedInReplay(transactionsToAdd[n])

----------------------------------------------------------------------------
(* C5 *)

\* the positions the mark-to-market loop is through with
MarkedPositions ==
    IF pc = "mark" THEN 1..(cursor - 1)
    ELSE IF InMemoryWorkDone THEN 1..Len(ynabPositions)
    ELSE {}

\* C5: a position of positive quantity with a live open position gets exactly
\* one mutation, an update by the id of the uncleared entry the ledger holds for
\* its ISIN when there is one, else a create; no position gets more than one;
\* and the ledger never holds two uncleared entries of one ISIN.
C5_OneMarkPerSecurity ==
    /\ \A n \in MarkedPositions :
          LET isin == ynabPositions[n].isin
              creates == MarksOf(transactionsToAdd, isin)
              updates == MarksOf(transactionsToUpdate, isin)
              uncleared == MarksOf(existingTransactions, isin)
          IN  /\ Cardinality(creates) + Cardinality(updates) <= 1
              /\ (ynabPositions[n].quantity > 0 /\ LivePosition(isin))
                    => /\ Cardinality(creates) + Cardinality(updates) = 1
                       /\ uncleared # {} <=> updates # {}
                       /\ \A u \in updates : \E o \in uncleared :
                             transactionsToUpdate[u].id = existingTransactions[o].id
    /\ \A n \in 1..Len(ledger) :
          MarkEntry(ledger[n]) => MarksOf(ledger, IsinOf(ledger[n])) = {n}

\* a later run found the mark-to-market entry of an earlier one and updated it
C5_Witness ==
    /\ run = 2 /\ pc = "done"
    /\ calls.updateTransactions = 1
    /\ \E n \in 1..Len(ledger) :
          /\ MarkEntry(ledger[n]) /\ IsinOf(ledger[n]) = <<"ISIN-A">>
          /\ ledger[n].date = Today(2)

----------------------------------------------------------------------------
(* C6 *)

\* C6: the entry of a Market buy or Market sell with a positive conversion fee
\* has exactly 2 sub-entries, the stock leg of the entry's amount plus the fee
\* and the fee leg of minus the fee, which sum to the entry's amount; with no
\* fee, or a fee that is not positive, it has none.
C6_SplitConsistency ==
    \A n \in 1..Len(trading212Transactions) : \A m \in 1..Len(transactionsToAdd) :
        LET t == trading212Transactions[n]
            e == transactionsToAdd[m]
            subs == e.subtransactions
        IN  (t.action \in {"Market buy", "Market sell"} /\ e.import_id = SourceIdentity(t))
              => IF t.conversionFee # <<>> /\ t.conversionFee[1].v > 0
                 THEN /\ Len(subs) = 2
                      /\ subs[1].amount.v = e.amount.v + t.conversionFee[1].v
                      /\ subs[2].amount.v = -t.conversionFee[1].v
                      /\ subs[1].amount.v + subs[2].amount.v = e.amount.v
                 ELSE subs = <<>>

\* the create batch holds a split sell and a buy with a fee of 0.00
C6_Witness ==
    /\ \E m \in 1..Len(transactionsToAdd) :
          /\ Len(transactionsToAdd[m].subtransactions) = 2
          /\ transactionsToAdd[m].amount.v > 0
    /\ \E n \in 1..Len(trading212Transactions) :
          /\ trading212Transactions[n].conversionFee = <<[k |-> "fin", v |-> 0]>>
          /\ Holding(transactionsToAdd, SourceIdentity(trading212Transactions[n])) # {}

----------------------------------------------------------------------------
(* C7 *)

\* a position of positive quantity whose ISIN the catalog knows and that has no
\* live open position
MissingLivePosition(p) == p.quantity > 0 /\ KnownInstrument(p.isin) /\ ~LivePosition(p.isin)

\* C7 as stated: the run fails with the internal-consistency error once the
\* mark-to-market loop comes to a position whose live data is missing; it
\* never gets past it.
C7_MissingPositionIsFatal ==
    \A n \in MarkedPositions : ~MissingLivePosition(ynabPositions[n])

\* C7, amended: such a position is skipped without a mutation and without an
\* error; the error `No t212 position` is never thrown.
C7_MissingPositionIsSkipped ==
    /\ error # Some("No t212 position")
    /\ \A n \in MarkedPositions :
          MissingLivePosition(ynabPositions[n])
            => /\ MarksOf(transactionsToAdd, ynabPositions[n].isin) = {}
               /\ MarksOf(transactionsToUpdate, ynabPositions[n].isin) = {}
               /\ pc # "failed"

\* a run ended well with a held position that has no live data
C7_Witness ==
    /\ pc = "done"
    /\ \E n \in 1..Len(ynabPositions) : MissingLivePosition(ynabPositions[n])

----------------------------------------------------------------------------
(* C8 *)

\* the memo reads `{digits and dots}x {name} [{isin}]`
AcceptedMemo(memo) ==
    /\ Len(memo) >= 7
    /\ \E x \in 2..Len(memo) :
          /\ memo[x] = "x"
          /\ \A i \in 1..(x - 1) : memo[i] \in {"0", "1", "2", "3", "4", "5", "6", "7", "8", "9", "."}
    /\ memo[Len(memo)] = "]"

\* C8 as stated: every stock-tagged entry the system makes that is no dividend
\* has a memo the pattern accepts, and no run fails on a memo
C8_MemoRoundTrips ==
    /\ \A n \in 1..Len(transactionsToAdd) :
          LET e == transactionsToAdd[n]
          IN  (e.payee_name[1] = "Stock:" /\ e.memo[1] # "Dividend") => AcceptedMemo(e.memo)
    /\ error # Some("Could not parse memo")

----------------------------------------------------------------------------
(* C9 *)

\* the export the run asked for is finished and has its link
ExportReady ==
    /\ ref # <<>>
    /\ ref[1] \in DOMAIN exportsHistory
    /\ exportsHistory[ref[1]].status = "Finished"
    /\ exportsHistory[ref[1]].downloadLink # <<>>

\* C9: a run calls requestExport once and polls the export of that reference;
\* it goes on to the download exactly when that export is Finished with a
\* link, and as long as it is not, nothing is read from the ledger, classified
\* or sent.
C9_ExportPolling ==
    /\ calls.requestExport = (IF pc = "start" THEN 0 ELSE 1)
    /\ pc # "start" => ref = <<run>>
    /\ pc \notin {"start", "poll"} => ExportReady /\ status = "Finished" /\ downloadLink # <<>>
    /\ pc = "poll"
          => /\ existingTransactions = <<>> /\ trading212Transactions = <<>>
             /\ transactionsToAdd = <<>> /\ transactionsToUpdate = <<>>
             /\ calls.createTransactions = 0 /\ calls.updateTransactions = 0
             /\ ExportReady <=> ENABLED PollFinished
             /\ ~ExportReady <=> ENABLED PollAgain

\* the run polled an unfinished export, and an older export is finished
C9_Witness ==
    /\ pc = "poll" /\ status = "Processing" /\ ~ExportReady
    /\ exportsHistory[0].status = "Finished"

----------------------------------------------------------------------------
(* C10 *)

\* C10 as stated: after each replayed entry every position holds a quantity >= 0
\* and a defined totalAmount >= 0, and every mark-to-market amount is a defined
\* integer.
C10_ReplayWellDefined ==
    /\ \A n \in 1..Len(ynabPositions) :
          /\ ynabPositions[n].quantity >= 0
          /\ ynabPositions[n].totalAmount.k = "fin"
          /\ ynabPositions[n].totalAmount.v >= 0
    /\ \A n \in 1..Len(transactionsToAdd) : transactionsToAdd[n].amount.k = "fin"
    /\ \A n \in 1..Len(transactionsToUpdate) : transactionsToUpdate[n].amount.k = "fin"

====
